---- MODULE Spec2Model ----
(***************************************************************************)
(* Attempt lifecycle and grading engine of the Examoraa exam server        *)
(* (Express + Mongoose + Socket.io).  Every request handler is split at    *)
(* its `await` points, so that handlers of concurrent requests interleave  *)
(* exactly where the Node.js event loop lets them interleave.              *)
(*                                                                         *)
(* A Mongoose document loaded by a handler is a private copy; save() sends *)
(* only the paths the handler modified ($set of changed scalars, $push of  *)
(* appended array elements), increments __v on a $push and requires the    *)
(* loaded __v when an element of an array is modified in place.            *)
(***************************************************************************)
EXTENDS Integers, Sequences, FiniteSets, TLC

\* ------------------------------------------------------------------------
\* Bounds of the model
\* ------------------------------------------------------------------------
MaxAttempts == 2
MaxTime == 1
MaxWork == 3
MaxEvents == 2
MaxExpected == 3
MaxSubmission == 2
MaxMounts == 2
MaxReports == 1

\* ------------------------------------------------------------------------
\* Program constants
\* ------------------------------------------------------------------------
DEFAULT_TAB_SWITCH_LIMIT == 3

Nil == 0 - 1

Procs == {1, 2}
Students == {"s1", "s2"}
Instructors == {"i1"}
ExamIds == {1}
MissingId == 9
SocketIds == {"k1", "k2"}
\* the socket and the user of the browser whose exam page is modelled
ClientSocket == "k1"
ClientUser == "s1"
Roles == {"student", "instructor", "admin"}
\* a well-formed question id that no exam has
UnknownQuestionId == 3

\* ------------------------------------------------------------------------
\* Strings are sequences of characters
\* ------------------------------------------------------------------------
toLowerCase(s) ==
    [i \in 1..Len(s) |-> CASE s[i] = "A" -> "a"
                           [] s[i] = "B" -> "b"
                           [] OTHER -> s[i]]

\* the white space trim() removes: the space and, among others, the tab
WhiteSpace == {" ", "\t"}

RECURSIVE trimStart(_)
trimStart(s) ==
    IF s # <<>> /\ Head(s) \in WhiteSpace THEN trimStart(Tail(s)) ELSE s

RECURSIVE trimEnd(_)
trimEnd(s) ==
    IF s # <<>> /\ s[Len(s)] \in WhiteSpace
    THEN trimEnd(SubSeq(s, 1, Len(s) - 1)) ELSE s

trim(s) == trimEnd(trimStart(s))

\* s.split(' '): the pieces between single spaces, empty pieces included
RECURSIVE split(_)
split(s) ==
    IF \E i \in 1..Len(s) : s[i] = " "
    THEN LET i == CHOOSE k \in 1..Len(s) :
                      s[k] = " " /\ \A j \in 1..(k - 1) : s[j] # " "
         IN  <<SubSeq(s, 1, i - 1)>> \o split(SubSeq(s, i + 1, Len(s)))
    ELSE <<s>>

\* s.includes(w)
includes(s, w) ==
    \E i \in 0..(Len(s) - Len(w)) : SubSeq(s, i + 1, i + Len(w)) = w

\* Math.round(n / d * 100) for n >= 0, d > 0
RoundPct(n, d) == (200 * n + d) \div (2 * d)

\* ------------------------------------------------------------------------
\* Exams
\* ------------------------------------------------------------------------
Questions ==
    << [id |-> 1, type |-> "multiple_choice", questionText |-> "Q1",
        options |-> <<"A", "B">>, correctAnswer |-> <<"B">>, marks |-> 2,
        explanation |-> "E1"],
       [id |-> 2, type |-> "short_answer", questionText |-> "Q2",
        options |-> <<>>, correctAnswer |-> <<"a", " ", "b">>, marks |-> 3,
        explanation |-> "E2"] >>

AnswerValues == { <<"b", " ">>, <<"b", "a">> }
QuestionIds == {1, 2}
ViolationTypes == {"tab_switch", "right_click"}

ExamConfigs ==
    [ isPublished : BOOLEAN,
      allowMultipleAttempts : BOOLEAN,
      startTime : {Nil, 1},
      endTime : {Nil, 0},
      duration : {1},
      totalMarks : {5},
      passingMarks : {2},
      tabSwitchLimit : {1},
      questions : {Questions} ]

\* ------------------------------------------------------------------------
\* State
\* ------------------------------------------------------------------------
VARIABLES
    exams,        \* Exam collection: exam id -> exam document
    attempts,     \* ExamAttempt collection: sequence, index = attempt id; a
                  \* document that was deleted keeps its place, marked deleted
    activityLog,  \* ActivityLog collection: sequence of log documents; the
                  \* activities of a document are kept as the set of their types
    emitted,      \* events emitted to the room 'instructors', in order
    now,          \* the server clock (new Date())
    pc,           \* per request slot: the await the handler is suspended at
    req,          \* per request slot: the request (params, body, user)
    exam,         \* per request slot: the handler's exam document
    doc,          \* per request slot: the handler's attempt document (kept
                  \* while the handler still reads it)
    delta,        \* per request slot: what doc.save() will send
    response,     \* the response sent by the last step (NoResponse if none):
                  \* the route, the :id of an attempt route or the attempt a
                  \* start returns, the status code, the error and the exam
                  \* objects of the body
    sockets,      \* socket.io connections: connected, the role of the entry
                  \* in connectedUsers, the rooms joined, and the events the
                  \* client has received (their positions in emitted)
    client        \* the exam page (TakeExam) in the browser of a student:
                  \* its refs and state, the fetch on its way to the server,
                  \* the fetches the handlers are serving, and the socket
                  \* messages on their way

vars == <<exams, attempts, activityLog, emitted, now, pc, req, exam, doc,
          delta, response, sockets, client>>

NoReq == [op |-> "none"]
NoExam == [isPublished |-> FALSE]
NoDoc == [status |-> "none"]
NoDelta == [kind |-> "none"]
NoResponse == [op |-> "none", user |-> "none", code |-> 0, error |-> "none",
               attemptId |-> Nil, exams |-> <<>>]
NoSocket == [connected |-> FALSE, role |-> "none", rooms |-> {},
             received |-> {}]
NoReason == [kind |-> "none", violations |-> 0, tabSwitches |-> 0]
NoCall == [op |-> "none"]
\* no exam page is open
NoClient ==
    [ mounts |-> 0, examId |-> Nil, attempt |-> Nil, limit |-> 0,
      timeLeft |-> 0,
      timer |-> FALSE, listening |-> FALSE, submitted |-> FALSE,
      cancelled |-> FALSE, violations |-> 0, tabSwitches |-> 0,
      sent |-> NoCall,
      waiting |-> [p \in Procs |-> NoCall], outbox |-> 0 ]

\* ------------------------------------------------------------------------
\* Attempt documents (attemptSchema)
\* ------------------------------------------------------------------------
\* (variant: the snapshot is taken from passingMarks)
NewAttempt_PassingMarks(e, ex, student, t) ==
    [ exam |-> e, student |-> student, startedAt |-> t, submittedAt |-> Nil,
      timeSpent |-> Nil, answers |-> <<>>, score |-> 0,
      totalMarks |-> ex.passingMarks, percentage |-> 0, passed |-> FALSE,
      violations |-> <<>>, tabSwitches |-> 0, webcamSnapshots |-> 0,
      status |-> "in_progress", flagged |-> FALSE, flagReason |-> NoReason,
      v |-> 0, deleted |-> FALSE ]

NewAttempt(e, ex, student, t) ==
    [ exam |-> e, student |-> student, startedAt |-> t, submittedAt |-> Nil,
      timeSpent |-> Nil, answers |-> <<>>, score |-> 0,
      totalMarks |-> ex.totalMarks, percentage |-> 0, passed |-> FALSE,
      violations |-> <<>>, tabSwitches |-> 0, webcamSnapshots |-> 0,
      status |-> "in_progress", flagged |-> FALSE, flagReason |-> NoReason,
      v |-> 0, deleted |-> FALSE ]

NewAnswer(q, val) ==
    [ questionId |-> q, answer |-> val, isCorrect |-> "undefined",
      marksAwarded |-> 0 ]

ScalarPaths ==
    { "exam", "student", "startedAt", "submittedAt", "timeSpent", "score",
      "totalMarks", "percentage", "passed", "tabSwitches", "status",
      "flagged", "flagReason" }

AnswerPaths == { "questionId", "answer", "isCorrect", "marksAwarded" }

TerminalStatuses == { "submitted", "auto_submitted", "cancelled" }

\* ------------------------------------------------------------------------
\* doc.save(): the update Mongoose builds from the modified paths of the
\* local document d, which was loaded as l
\* ------------------------------------------------------------------------
\* (variant: save() writes every scalar path of the local document)
Delta_WholeDocument(l, d) ==
    LET pushA   == SubSeq(d.answers, Len(l.answers) + 1, Len(d.answers))
        pushV   == SubSeq(d.violations, Len(l.violations) + 1,
                          Len(d.violations))
        pushS   == d.webcamSnapshots - l.webcamSnapshots
    IN  [ kind |-> "update",
          set |-> [ f \in ScalarPaths |-> d[f] ],
          setAnswers |-> [ x \in (1..Len(l.answers)) \X AnswerPaths |->
                             d.answers[x[1]][x[2]] ],
          pushAnswers |-> pushA, pushViolations |-> pushV,
          pushSnapshots |-> pushS,
          where |-> Nil,
          inc |-> (pushA # <<>> \/ pushV # <<>> \/ pushS > 0) ]

Delta(l, d) ==
    LET sets    == { f \in ScalarPaths : d[f] # l[f] }
        setsAns == { x \in (1..Len(l.answers)) \X AnswerPaths :
                         d.answers[x[1]][x[2]] # l.answers[x[1]][x[2]] }
        pushA   == SubSeq(d.answers, Len(l.answers) + 1, Len(d.answers))
        pushV   == SubSeq(d.violations, Len(l.violations) + 1,
                          Len(d.violations))
        pushS   == d.webcamSnapshots - l.webcamSnapshots
    IN  [ kind |-> "update",
          set |-> [ f \in sets |-> d[f] ],
          setAnswers |-> [ x \in setsAns |-> d.answers[x[1]][x[2]] ],
          pushAnswers |-> pushA, pushViolations |-> pushV,
          pushSnapshots |-> pushS,
          \* VERSION_WHERE: an array element is modified in place
          where |-> IF setsAns # {} THEN l.v ELSE Nil,
          \* VERSION_INC: something is pushed
          inc |-> (pushA # <<>> \/ pushV # <<>> \/ pushS > 0) ]

\* the update's filter matches the stored document s (save() throws
\* DocumentNotFoundError or VersionError when nothing matches)
SaveMatches(s, dl) == ~s.deleted /\ (dl.where = Nil \/ s.v = dl.where)

\* (variant: the update replaces the arrays by what was pushed)
ApplyDelta_ReplaceArrays(s, dl) ==
    [ f \in DOMAIN s |->
        CASE f = "answers" -> dl.pushAnswers
          [] f = "violations" -> dl.pushViolations
          [] f = "webcamSnapshots" -> dl.pushSnapshots
          [] f = "v" -> IF dl.inc THEN s.v + 1 ELSE s.v
          [] OTHER -> IF f \in DOMAIN dl.set THEN dl.set[f] ELSE s[f] ]

\* the stored document after the update dl
ApplyDelta(s, dl) ==
    [ f \in DOMAIN s |->
        CASE f = "answers" ->
               [ i \in 1..Len(s.answers) |->
                   [ g \in AnswerPaths |->
                       IF <<i, g>> \in DOMAIN dl.setAnswers
                       THEN dl.setAnswers[<<i, g>>]
                       ELSE s.answers[i][g] ] ] \o dl.pushAnswers
          [] f = "violations" -> s.violations \o dl.pushViolations
          [] f = "webcamSnapshots" -> s.webcamSnapshots + dl.pushSnapshots
          [] f = "v" -> IF dl.inc THEN s.v + 1 ELSE s.v
          [] OTHER -> IF f \in DOMAIN dl.set THEN dl.set[f] ELSE s[f] ]

\* ------------------------------------------------------------------------
\* Grading (the AUTO-GRADING loop of the submit handler)
\* ------------------------------------------------------------------------
HasQuestion(ex, q) == \E i \in 1..Len(ex.questions) : ex.questions[i].id = q

QuestionById(ex, q) ==
    ex.questions[CHOOSE i \in 1..Len(ex.questions) : ex.questions[i].id = q]

\* (variant: the strings are compared without trim())
ExactMatch_NoTrim(answer, correctAnswer) ==
    toLowerCase(answer) = toLowerCase(correctAnswer)

ExactMatch(answer, correctAnswer) ==
    trim(toLowerCase(answer)) = trim(toLowerCase(correctAnswer))

KeywordMatch(answer, correctAnswer) ==
    LET correct == trim(toLowerCase(correctAnswer))
        student == trim(toLowerCase(answer))
        words   == split(correct)
    IN  \/ student = correct
        \/ \A i \in 1..Len(words) : includes(student, words[i])

IsCorrect(question, answer) ==
    IF question.type \in {"multiple_choice", "true_false"}
    THEN ExactMatch(answer, question.correctAnswer)
    ELSE KeywordMatch(answer, question.correctAnswer)

MarksAwarded(question, answer) ==
    IF IsCorrect(question, answer) THEN question.marks ELSE 0

GradeAnswer(ex, ans) ==
    IF ~HasQuestion(ex, ans.questionId) THEN ans
    ELSE LET question == QuestionById(ex, ans.questionId)
         IN  IF question.type \in
                    {"multiple_choice", "true_false", "short_answer"}
             THEN [ ans EXCEPT
                      !.isCorrect = IF IsCorrect(question, ans.answer)
                                    THEN "true" ELSE "false",
                      !.marksAwarded = MarksAwarded(question, ans.answer) ]
             ELSE ans

GradeAnswers(ex, answers) ==
    [ i \in 1..Len(answers) |-> GradeAnswer(ex, answers[i]) ]

RECURSIVE TotalScore(_, _)
TotalScore(ex, answers) ==
    IF answers = <<>> THEN 0
    ELSE (IF HasQuestion(ex, Head(answers).questionId)
          THEN GradeAnswer(ex, Head(answers)).marksAwarded ELSE 0)
         + TotalScore(ex, Tail(answers))

Percentage(ex, totalScore) ==
    IF ex.totalMarks > 0 THEN RoundPct(totalScore, ex.totalMarks) ELSE 0

Passed(ex, totalScore) == totalScore >= ex.passingMarks

\* (variant: the autoSubmit flag of the body is ignored)
SubmitStatus_AlwaysSubmitted(autoSubmit) == "submitted"

SubmitStatus(autoSubmit) == IF autoSubmit THEN "auto_submitted" ELSE "submitted"

\* exam.antiCheatSettings?.tabSwitchLimit || DEFAULT_TAB_SWITCH_LIMIT
TabLimit(ex) ==
    IF ex.tabSwitchLimit # 0 THEN ex.tabSwitchLimit
    ELSE DEFAULT_TAB_SWITCH_LIMIT

SubmitFlags(ex, d) ==
    d.tabSwitches >= TabLimit(ex) \/ Len(d.violations) >= TabLimit(ex)

ViolationFlags(ex, d) == Len(d.violations) >= TabLimit(ex) * 2

\* (variant: an attempt that is flagged gets the status flagged)
Graded_StatusFlagged(ex, d, autoSubmit, t) ==
    LET totalScore == TotalScore(ex, d.answers)
        g == [ d EXCEPT
                 !.answers = GradeAnswers(ex, d.answers),
                 !.score = totalScore,
                 !.percentage = Percentage(ex, totalScore),
                 !.passed = Passed(ex, totalScore),
                 !.submittedAt = t,
                 !.timeSpent = t - d.startedAt,
                 !.status = SubmitStatus(autoSubmit) ]
    IN  IF SubmitFlags(ex, g)
        THEN [ g EXCEPT !.flagged = TRUE, !.status = "flagged",
                        !.flagReason = [ kind |-> "submit",
                                         violations |-> Len(g.violations),
                                         tabSwitches |-> g.tabSwitches ] ]
        ELSE g

\* the local document of the submit handler just before attempt.save()
Graded(ex, d, autoSubmit, t) ==
    LET totalScore == TotalScore(ex, d.answers)
        g == [ d EXCEPT
                 !.answers = GradeAnswers(ex, d.answers),
                 !.score = totalScore,
                 !.percentage = Percentage(ex, totalScore),
                 !.passed = Passed(ex, totalScore),
                 !.submittedAt = t,
                 !.timeSpent = t - d.startedAt,
                 !.status = SubmitStatus(autoSubmit) ]
    IN  IF SubmitFlags(ex, g)
        THEN [ g EXCEPT !.flagged = TRUE,
                        !.flagReason = [ kind |-> "submit",
                                         violations |-> Len(g.violations),
                                         tabSwitches |-> g.tabSwitches ] ]
        ELSE g

\* ------------------------------------------------------------------------
\* Helpers of the handlers
\* ------------------------------------------------------------------------
FreeSlot(p) == pc[p] = "idle" /\ \A q \in Procs : q < p => pc[q] # "idle"

\* the fetch of the exam page that the handler of slot p serves: the one on
\* its way when the handler starts, the one it took afterwards
ServedCall(p) == IF pc[p] = "idle" THEN client.sent ELSE client.waiting[p]

\* the exam page when the handler of slot p has taken its fetch
Taken(p) ==
    IF pc[p] = "idle"
    THEN [ client EXCEPT !.sent = NoCall, !.waiting[p] = client.sent ]
    ELSE client

\* the exam page when the response r to its fetch call has arrived: the
\* code after the await of startExam, doSubmit and doLogViolation
Replied(c, call, r) ==
    CASE call.op = "start" ->
           IF r.code \in {200, 201}
           THEN [ c EXCEPT
                    !.attempt = r.attemptId,
                    !.limit = r.exams[1].tabSwitchLimit,
                    !.timeLeft = r.exams[1].duration * 60,
                    !.timer = (r.exams[1].duration * 60 > 0),
                    !.listening = TRUE ]
           ELSE c
      [] call.op = "submit" ->
           IF r.code = 200
           THEN [ c EXCEPT !.submitted = TRUE, !.timer = FALSE,
                           !.listening = FALSE ]
           ELSE c
      [] call.op = "violation" -> [ c EXCEPT !.outbox = @ + 1 ]
      [] OTHER -> c

Finish(p, r) ==
    /\ pc' = [pc EXCEPT ![p] = "idle"]
    /\ req' = [req EXCEPT ![p] = NoReq]
    /\ exam' = [exam EXCEPT ![p] = NoExam]
    /\ doc' = [doc EXCEPT ![p] = NoDoc]
    /\ delta' = [delta EXCEPT ![p] = NoDelta]
    /\ response' = r
    /\ client' = Replied([ Taken(p) EXCEPT !.waiting[p] = NoCall ],
                         ServedCall(p), r)

Resp(r, code, error, a) ==
    [ op |-> r.op, user |-> IF "user" \in DOMAIN r THEN r.user ELSE "none",
      code |-> code, error |-> error, attemptId |-> a, exams |-> <<>> ]

\* a response whose body holds exam objects
RespExams(r, code, a, objects) ==
    [ Resp(r, code, "none", a) EXCEPT !.exams = objects ]

\* io.to('instructors').emit(...): the event goes to the connections that
\* are in the room now
Emit(ev) ==
    /\ emitted' = Append(emitted, ev)
    /\ sockets' = [ k \in SocketIds |->
                      IF sockets[k].connected
                         /\ "instructors" \in sockets[k].rooms
                      THEN [ sockets[k] EXCEPT
                               !.received = @ \cup {Len(emitted) + 1} ]
                      ELSE sockets[k] ]

\* a step of handler p that sends no response
Continue(p, next) ==
    /\ pc' = [pc EXCEPT ![p] = next]
    /\ response' = NoResponse
    /\ client' = Taken(p)

InFlight(labels) == Cardinality({ q \in Procs : pc[q] \in labels })

RECURSIVE SumOver(_, _)
SumOver(f, S) ==
    IF S = {} THEN 0
    ELSE LET x == CHOOSE y \in S : TRUE IN f[x] + SumOver(f, S \ {x})

TotalAnswers ==
    SumOver([a \in 1..Len(attempts) |-> Len(attempts[a].answers)],
            1..Len(attempts))
TotalViolations ==
    SumOver([a \in 1..Len(attempts) |-> Len(attempts[a].violations)],
            1..Len(attempts))
TotalSnapshots ==
    SumOver([a \in 1..Len(attempts) |-> attempts[a].webcamSnapshots],
            1..Len(attempts))

AttemptExists(a) == a \in 1..Len(attempts) /\ ~attempts[a].deleted

\* ExamAttempt.findOne({ exam, student, status: { $ne: 'cancelled' } })
Existing(e, student) ==
    { a \in 1..Len(attempts) :
        /\ attempts[a].exam = e
        /\ ~attempts[a].deleted
        /\ attempts[a].student = student
        /\ attempts[a].status # "cancelled" }

FindOne(e, student) ==
    CHOOSE a \in Existing(e, student) : \A b \in Existing(e, student) : a <= b

\* ActivityLog.updateOne({ attemptId }, { $push: { activities } })
LogPush(a, type) ==
    IF \E i \in 1..Len(activityLog) : activityLog[i].attemptId = a
    THEN LET i == CHOOSE k \in 1..Len(activityLog) :
                      /\ activityLog[k].attemptId = a
                      /\ \A j \in 1..(k - 1) : activityLog[j].attemptId # a
         IN  [ activityLog EXCEPT
                 ![i].activities = activityLog[i].activities \cup {type} ]
    ELSE activityLog

\* what the store holds and the handlers in flight are about to add
Work ==
    Len(attempts) + TotalAnswers + TotalViolations + TotalSnapshots
    + InFlight({"start_find", "start_save", "answer_save", "violation_flag",
                "violation_save", "snapshot_save"})

\* ------------------------------------------------------------------------
\* The exam objects of the response bodies
\* ------------------------------------------------------------------------
\* (variant: exam.toObject() is returned as it is)
SanitizedExam_ToObject(ex) == ex

\* start: every question is mapped to _id, type, questionText, options, marks
SanitizedExam(ex) ==
    [ ex EXCEPT !.questions =
        [ i \in 1..Len(ex.questions) |->
            [ id |-> ex.questions[i].id,
              type |-> ex.questions[i].type,
              questionText |-> ex.questions[i].questionText,
              options |-> ex.questions[i].options,
              marks |-> ex.questions[i].marks ] ] ]

\* the fields of q except those of the set hidden
Without(q, hidden) == [ f \in (DOMAIN q) \ hidden |-> q[f] ]

\* GET /api/exams: .select('-questions.correctAnswer')
SelectedExam(ex) ==
    [ ex EXCEPT !.questions =
        [ i \in 1..Len(ex.questions) |->
            Without(ex.questions[i], {"correctAnswer"}) ] ]

\* GET /api/exams/:id for a student: correctAnswer and explanation are
\* undefined, and JSON leaves undefined fields out
StudentExam(ex) ==
    [ ex EXCEPT !.questions =
        [ i \in 1..Len(ex.questions) |->
            Without(ex.questions[i], {"correctAnswer", "explanation"}) ] ]

\* GET /api/attempts/:id: populate('exam', 'title subject duration totalMarks
\* passingMarks questions antiCheatSettings')
PopulatedExam(ex) ==
    [ duration |-> ex.duration, totalMarks |-> ex.totalMarks,
      passingMarks |-> ex.passingMarks, questions |-> ex.questions,
      tabSwitchLimit |-> ex.tabSwitchLimit ]

\* ------------------------------------------------------------------------
\* POST /api/exams/:id/start
\* ------------------------------------------------------------------------
\* (variant: the end of the time window is not checked)
StartCheckExam_NoEndTime(ex, t) ==
    IF ~ex.isPublished THEN "Exam is not published"
    ELSE IF ex.startTime # Nil /\ t < ex.startTime
         THEN "Exam has not started yet"
    ELSE "ok"

\* the checks on the exam document ("ok" or the error of the response)
StartCheckExam(ex, t) ==
    IF ~ex.isPublished THEN "Exam is not published"
    ELSE IF ex.startTime # Nil /\ t < ex.startTime
         THEN "Exam has not started yet"
    ELSE IF ex.endTime # Nil /\ t > ex.endTime THEN "Exam has ended"
    ELSE "ok"

StartRequest(p, e, student) ==
    /\ FreeSlot(p)
    /\ Len(attempts) + InFlight({"start_find", "start_save"}) < MaxAttempts
    /\ Work < MaxWork
    /\ LET r == [op |-> "start", exam |-> e, user |-> student,
                 attemptId |-> Nil]
       IN  IF e \notin DOMAIN exams
           THEN /\ Finish(p, Resp(r, 404, "Exam not found", Nil))
           ELSE IF StartCheckExam(exams[e], now) # "ok"
           THEN /\ Finish(p, Resp(r, 400, StartCheckExam(exams[e], now), Nil))
           ELSE /\ req' = [req EXCEPT ![p] = r]
                /\ exam' = [exam EXCEPT ![p] = exams[e]]
                /\ IF ~exams[e].allowMultipleAttempts
                   THEN /\ Continue(p, "start_find")
                        /\ doc' = doc
                   ELSE /\ Continue(p, "start_save")
                        /\ doc' = [doc EXCEPT
                                     ![p] = NewAttempt(e, exams[e], student, now)]
                /\ UNCHANGED <<delta>>
    /\ UNCHANGED <<sockets, exams, attempts, activityLog, emitted, now>>

\* (variant: no resume branch)
StartExisting_NoResume(att) == "conflict"

\* what start does with the attempt findOne returned
StartExisting(att) ==
    IF att.status = "in_progress" THEN "resume" ELSE "conflict"

StartFind(p) ==
    /\ pc[p] = "start_find"
    /\ LET r == req[p]
       IN  IF Existing(r.exam, r.user) # {}
           THEN LET a == FindOne(r.exam, r.user)
                IN  IF StartExisting(attempts[a]) = "resume"
                    THEN Finish(p, RespExams(r, 200, a,
                                          <<SanitizedExam(exam[p])>>))
                    ELSE Finish(p, Resp(r, 400,
                                "You have already attempted this exam", Nil))
           ELSE /\ Continue(p, "start_save")
                /\ doc' = [doc EXCEPT
                             ![p] = NewAttempt(r.exam, exam[p], r.user, now)]
                /\ UNCHANGED <<req, exam, delta>>
    /\ UNCHANGED <<sockets, exams, attempts, activityLog, emitted, now>>

StartSave(p) ==
    /\ pc[p] = "start_save"
    /\ attempts' = Append(attempts, doc[p])
    /\ req' = [req EXCEPT ![p].attemptId = Len(attempts) + 1]
    /\ Continue(p, "start_log")
    /\ UNCHANGED <<sockets, exams, activityLog, emitted, now, exam, doc, delta>>

\* (variant: nothing is emitted)
StartLog_NoEmit(p) ==
    /\ pc[p] = "start_log"
    /\ activityLog' = Append(activityLog,
                             [ attemptId |-> req[p].attemptId,
                               activities |-> {"exam_start"} ])
    /\ Finish(p, RespExams(req[p], 201, req[p].attemptId,
                            <<SanitizedExam(exam[p])>>))
    /\ UNCHANGED <<sockets, exams, attempts, emitted, now>>

StartLog(p) ==
    /\ pc[p] = "start_log"
    /\ activityLog' = Append(activityLog,
                             [ attemptId |-> req[p].attemptId,
                               activities |-> {"exam_start"} ])
    /\ Emit([ event |-> "exam-started",
              attemptId |-> req[p].attemptId,
              examId |-> req[p].exam,
              studentId |-> req[p].user ])
    /\ Finish(p, RespExams(req[p], 201, req[p].attemptId,
                            <<SanitizedExam(exam[p])>>))
    /\ UNCHANGED <<exams, attempts, now>>

\* ------------------------------------------------------------------------
\* POST /api/attempts/:id/answer
\* ------------------------------------------------------------------------
\* (variant: every caller is taken for the attempt's student)
IsOwner_Anyone(att, user) == TRUE

\* attempt.student.toString() === req.user.id
IsOwner(att, user) == att.student = user

\* (variant: the status of the attempt is not checked)
AnswerCheck_NoStatus(att, user) ==
    IF ~IsOwner(att, user) THEN 403 ELSE 200

AnswerCheck(att, user) ==
    IF ~IsOwner(att, user) THEN 403
    ELSE IF att.status # "in_progress" THEN 400
    ELSE 200

\* attempt.answers.findIndex(a => a.questionId.toString() === questionId)
FindIndex(answers, q) ==
    IF \E i \in 1..Len(answers) : answers[i].questionId = q
    THEN CHOOSE i \in 1..Len(answers) :
             /\ answers[i].questionId = q
             /\ \A j \in 1..(i - 1) : answers[j].questionId # q
    ELSE 0

Upsert(answers, q, val) ==
    IF FindIndex(answers, q) > 0
    THEN [answers EXCEPT ![FindIndex(answers, q)].answer = val]
    ELSE Append(answers, NewAnswer(q, val))

AnswerRequest(p, a, user, q, val) ==
    /\ FreeSlot(p)
    \* an answer to a question already answered adds nothing to the store
    /\ \/ Work < MaxWork
       \/ AttemptExists(a) /\ FindIndex(attempts[a].answers, q) > 0
    /\ LET r == [op |-> "answer", attemptId |-> a, user |-> user,
                 questionId |-> q, answer |-> val]
       IN  IF ~AttemptExists(a)
           THEN Finish(p, Resp(r, 404, "Attempt not found", a))
           ELSE IF AnswerCheck(attempts[a], user) = 403
           THEN Finish(p, Resp(r, 403, "Not authorized", a))
           ELSE IF AnswerCheck(attempts[a], user) = 400
           THEN Finish(p, Resp(r, 400, "Exam already submitted", a))
           ELSE LET d == [attempts[a] EXCEPT
                            !.answers = Upsert(attempts[a].answers, q, val)]
                IN  /\ req' = [req EXCEPT ![p] = r]
                    /\ delta' = [delta EXCEPT ![p] = Delta(attempts[a], d)]
                    /\ Continue(p, "answer_save")
                    /\ UNCHANGED <<exam, doc>>
    /\ UNCHANGED <<sockets, exams, attempts, activityLog, emitted, now>>

\* await attempt.save(): VersionError when the filter does not match
Save(p, next) ==
    LET a == req[p].attemptId
    IN  IF SaveMatches(attempts[a], delta[p])
        THEN /\ attempts' = [attempts EXCEPT
                               ![a] = ApplyDelta(attempts[a], delta[p])]
             /\ Continue(p, next)
             /\ UNCHANGED <<req, exam, doc, delta>>
        ELSE /\ attempts' = attempts
             /\ Finish(p, Resp(req[p], 500, "Error", a))

AnswerSave(p) ==
    /\ pc[p] = "answer_save"
    /\ Save(p, "answer_log")
    /\ UNCHANGED <<sockets, exams, activityLog, emitted, now>>

AnswerLog(p) ==
    /\ pc[p] = "answer_log"
    /\ activityLog' = LogPush(req[p].attemptId, "answer_saved")
    /\ Finish(p, Resp(req[p], 200, "none", req[p].attemptId))
    /\ UNCHANGED <<sockets, exams, attempts, emitted, now>>

\* ------------------------------------------------------------------------
\* POST /api/attempts/:id/submit
\* ------------------------------------------------------------------------
\* (variant: the status of the attempt is not checked)
SubmitCheck_NoStatus(att, user) ==
    IF ~IsOwner(att, user) THEN 403 ELSE 200

SubmitCheck(att, user) ==
    IF ~IsOwner(att, user) THEN 403
    ELSE IF att.status # "in_progress" THEN 400
    ELSE 200

SubmitRequest(p, a, user, autoSubmit) ==
    /\ FreeSlot(p)
    /\ LET r == [op |-> "submit", attemptId |-> a, user |-> user,
                 autoSubmit |-> autoSubmit]
       IN  IF ~AttemptExists(a)
           THEN Finish(p, Resp(r, 404, "Attempt not found", a))
           ELSE IF SubmitCheck(attempts[a], user) = 403
           THEN Finish(p, Resp(r, 403, "Not authorized", a))
           ELSE IF SubmitCheck(attempts[a], user) = 400
           THEN Finish(p, Resp(r, 400, "Already submitted", a))
           ELSE /\ req' = [req EXCEPT ![p] = r]
                /\ doc' = [doc EXCEPT ![p] = attempts[a]]
                /\ Continue(p, "submit_grade")
                /\ UNCHANGED <<exam, delta>>
    /\ UNCHANGED <<sockets, exams, attempts, activityLog, emitted, now>>

SubmitGrade(p) ==
    /\ pc[p] = "submit_grade"
    /\ IF doc[p].exam \notin DOMAIN exams
       THEN Finish(p, Resp(req[p], 404, "Exam not found", req[p].attemptId))
       ELSE LET ex == exams[doc[p].exam]
                d  == Graded(ex, doc[p], req[p].autoSubmit, now)
            IN  /\ exam' = [exam EXCEPT ![p] = ex]
                /\ doc' = [doc EXCEPT ![p] = d]
                /\ delta' = [delta EXCEPT ![p] = Delta(doc[p], d)]
                /\ Continue(p, "submit_save")
                /\ UNCHANGED <<req>>
    /\ UNCHANGED <<sockets, exams, attempts, activityLog, emitted, now>>

SubmitSave(p) ==
    /\ pc[p] = "submit_save"
    /\ Save(p, "submit_log")
    /\ UNCHANGED <<sockets, exams, activityLog, emitted, now>>

SubmitLog(p) ==
    /\ pc[p] = "submit_log"
    /\ activityLog' = LogPush(req[p].attemptId, "exam_submitted")
    /\ Emit([ event |-> "exam-submitted",
              attemptId |-> req[p].attemptId,
              examId |-> doc[p].exam,
              score |-> doc[p].score,
              percentage |-> doc[p].percentage,
              passed |-> doc[p].passed,
              flagged |-> doc[p].flagged,
              violations |-> Len(doc[p].violations) ])
    /\ Finish(p, Resp(req[p], 200, "none", req[p].attemptId))
    /\ UNCHANGED <<exams, attempts, now>>

\* ------------------------------------------------------------------------
\* POST /api/attempts/:id/violation
\* ------------------------------------------------------------------------
\* (variant: the status of the attempt is not checked)
ViolationCheck_NoStatus(att) == 200

ViolationCheck(att) ==
    IF att.status # "in_progress" THEN 400 ELSE 200

ViolationRequest(p, a, user, type) ==
    /\ FreeSlot(p)
    /\ Work < MaxWork
    /\ LET r == [op |-> "violation", attemptId |-> a, user |-> user,
                 type |-> type]
       IN  IF ~AttemptExists(a)
           THEN Finish(p, Resp(r, 404, "Attempt not found", a))
           ELSE IF ViolationCheck(attempts[a]) = 400
           THEN Finish(p, Resp(r, 400, "Exam not in progress", a))
           ELSE /\ req' = [req EXCEPT ![p] = r]
                /\ doc' = [doc EXCEPT ![p] = attempts[a]]
                /\ Continue(p, "violation_flag")
                /\ UNCHANGED <<exam, delta>>
    /\ UNCHANGED <<sockets, exams, attempts, activityLog, emitted, now>>

\* the local document of the violation handler just before attempt.save()
Violated(ex, d, type) ==
    LET d1 == [ d EXCEPT
                  !.violations = Append(d.violations, [type |-> type]),
                  !.tabSwitches = IF type = "tab_switch"
                                  THEN d.tabSwitches + 1 ELSE d.tabSwitches ]
    IN  IF ViolationFlags(ex, d1)
        THEN [ d1 EXCEPT !.flagged = TRUE,
                         !.flagReason = [ kind |-> "auto",
                                          violations |-> Len(d1.violations),
                                          tabSwitches |-> 0 ] ]
        ELSE d1

\* exam?.antiCheatSettings?.tabSwitchLimit || DEFAULT_TAB_SWITCH_LIMIT
DefaultExam == [tabSwitchLimit |-> 0]

ViolationFlag(p) ==
    /\ pc[p] = "violation_flag"
    /\ LET ex == IF doc[p].exam \in DOMAIN exams THEN exams[doc[p].exam]
                 ELSE DefaultExam
           d  == Violated(ex, doc[p], req[p].type)
       IN  /\ doc' = [doc EXCEPT ![p] = d]
           /\ delta' = [delta EXCEPT ![p] = Delta(doc[p], d)]
           /\ Continue(p, "violation_save")
           /\ UNCHANGED <<req, exam>>
    /\ UNCHANGED <<sockets, exams, attempts, activityLog, emitted, now>>

ViolationSave(p) ==
    /\ pc[p] = "violation_save"
    /\ LET a == req[p].attemptId
       IN  IF SaveMatches(attempts[a], delta[p])
           THEN /\ attempts' = [attempts EXCEPT
                                  ![a] = ApplyDelta(attempts[a], delta[p])]
                /\ Emit([ event |-> "violation-alert",
                          attemptId |-> a,
                          examId |-> doc[p].exam,
                          studentId |-> req[p].user,
                          type |-> req[p].type,
                          totalViolations |-> Len(doc[p].violations),
                          tabSwitches |-> doc[p].tabSwitches ])
                /\ Finish(p, Resp(req[p], 200, "none", a))
           ELSE /\ Finish(p, Resp(req[p], 500, "Error logging violation", a))
                /\ UNCHANGED <<attempts, emitted, sockets>>
    /\ UNCHANGED <<exams, activityLog, now>>

\* ------------------------------------------------------------------------
\* POST /api/attempts/:id/snapshot
\* ------------------------------------------------------------------------
SnapshotRequest(p, a, hasImage) ==
    /\ FreeSlot(p)
    /\ Work < MaxWork
    /\ LET r == [op |-> "snapshot", attemptId |-> a]
       IN  IF ~AttemptExists(a)
           THEN Finish(p, Resp(r, 404, "Attempt not found", a))
           ELSE IF ~hasImage
           THEN Finish(p, Resp(r, 200, "none", a))
           ELSE LET d == [attempts[a] EXCEPT
                            !.webcamSnapshots = attempts[a].webcamSnapshots + 1]
                IN  /\ req' = [req EXCEPT ![p] = r]
                    /\ delta' = [delta EXCEPT ![p] = Delta(attempts[a], d)]
                    /\ Continue(p, "snapshot_save")
                    /\ UNCHANGED <<exam, doc>>
    /\ UNCHANGED <<sockets, exams, attempts, activityLog, emitted, now>>

SnapshotSave(p) ==
    /\ pc[p] = "snapshot_save"
    /\ LET a == req[p].attemptId
       IN  IF SaveMatches(attempts[a], delta[p])
           THEN /\ attempts' = [attempts EXCEPT
                                  ![a] = ApplyDelta(attempts[a], delta[p])]
                /\ Finish(p, Resp(req[p], 200, "none", a))
           ELSE /\ attempts' = attempts
                /\ Finish(p, Resp(req[p], 500, "Error saving snapshot", a))
    /\ UNCHANGED <<sockets, exams, activityLog, emitted, now>>

\* ------------------------------------------------------------------------
\* The reading routes: GET /api/exams, GET /api/exams/:id and
\* GET /api/attempts/:id
\* ------------------------------------------------------------------------
\* req.user.role of the token
RoleOf(user) == IF user \in Students THEN "student" ELSE "instructor"

\* the exams of the ids S, the latest first
RECURSIVE ExamList(_)
ExamList(S) ==
    IF S = {} THEN <<>>
    ELSE LET e == CHOOSE x \in S : \A y \in S : y <= x
         IN  <<SelectedExam(exams[e])>> \o ExamList(S \ {e})

GetExams(user) ==
    /\ UNCHANGED <<client, sockets, exams, attempts, activityLog, emitted, now, pc,
                   req, exam, doc, delta>>
    /\ LET r == [op |-> "get_exams", user |-> user]
           found == { e \in DOMAIN exams :
                        RoleOf(user) = "student" => exams[e].isPublished }
       IN  response' = RespExams(r, 200, Nil, ExamList(found))

GetExam(e, user) ==
    /\ UNCHANGED <<client, sockets, exams, attempts, activityLog, emitted, now, pc,
                   req, exam, doc, delta>>
    /\ LET r == [op |-> "get_exam", user |-> user]
       IN  response' =
               IF e \notin DOMAIN exams
               THEN Resp(r, 404, "Exam not found", Nil)
               ELSE IF RoleOf(user) = "student"
               THEN RespExams(r, 200, Nil, <<StudentExam(exams[e])>>)
               ELSE RespExams(r, 200, Nil, <<exams[e]>>)

GetAttempt(a, user) ==
    /\ UNCHANGED <<client, sockets, exams, attempts, activityLog, emitted, now, pc,
                   req, exam, doc, delta>>
    /\ LET r == [op |-> "get_attempt", user |-> user]
       IN  response' =
               IF ~AttemptExists(a)
               THEN Resp(r, 404, "Attempt not found", a)
               ELSE IF RoleOf(user) = "student" /\ attempts[a].student # user
               THEN Resp(r, 403, "Not authorized", a)
               ELSE RespExams(r, 200, a,
                              IF attempts[a].exam \in DOMAIN exams
                              THEN <<PopulatedExam(exams[attempts[a].exam])>>
                              ELSE <<>>)

\* ------------------------------------------------------------------------
\* Socket.io: io.on('connection') and the handlers of a socket
\* ------------------------------------------------------------------------
Connect(k) ==
    /\ ~sockets[k].connected
    /\ sockets' = [sockets EXCEPT ![k].connected = TRUE]
    /\ response' = NoResponse
    /\ UNCHANGED <<client, exams, attempts, activityLog, emitted, now, pc, req, exam,
                   doc, delta>>

\* socket.on('register'): connectedUsers.set, and join for the two roles
Register(k, role) ==
    /\ sockets[k].connected
    /\ sockets' = [sockets EXCEPT
                     ![k].role = role,
                     ![k].rooms = IF role = "instructor" \/ role = "admin"
                                  THEN @ \cup {"instructors"} ELSE @]
    /\ response' = NoResponse
    /\ UNCHANGED <<client, exams, attempts, activityLog, emitted, now, pc, req, exam,
                   doc, delta>>

\* socket.on('disconnect'): connectedUsers.delete; the socket leaves its rooms
Disconnect(k) ==
    /\ sockets[k].connected
    /\ sockets' = [sockets EXCEPT ![k].connected = FALSE, ![k].role = "none",
                                  ![k].rooms = {}]
    /\ response' = NoResponse
    /\ UNCHANGED <<client, exams, attempts, activityLog, emitted, now, pc, req, exam,
                   doc, delta>>

\* socket.on('violation', data): the data goes to the room as violation-alert
SocketViolation(k, data) ==
    /\ sockets[k].connected
    \* a message of the exam page is on its way, or any client sends one
    /\ \/ k = ClientSocket /\ client.outbox > 0
       \/ Len(emitted) < MaxEvents
    /\ Emit([event |-> "violation-alert"] @@ data)
    /\ client' = IF k = ClientSocket /\ client.outbox > 0
                 THEN [ client EXCEPT !.outbox = @ - 1 ] ELSE client
    /\ response' = NoResponse
    /\ UNCHANGED <<exams, attempts, activityLog, now, pc, req, exam, doc,
                   delta>>

\* socket.on('student-activity', data): the data goes to the room
SocketActivity(k, data) ==
    /\ sockets[k].connected
    /\ Len(emitted) < MaxEvents
    /\ Emit([event |-> "student-activity"] @@ data)
    /\ response' = NoResponse
    /\ UNCHANGED <<client, exams, attempts, activityLog, now, pc, req, exam, doc,
                   delta>>

\* ------------------------------------------------------------------------
\* The exam page of the client: TakeExam({ examId }) of App.jsx
\* ------------------------------------------------------------------------
\* nothing of the page is on its way or being served
Quiet ==
    /\ client.sent = NoCall
    /\ \A p \in Procs : client.waiting[p] = NoCall
    /\ client.outbox = 0

\* a step of the page alone, after which the page is c
Page(c) ==
    /\ client' = c
    /\ response' = NoResponse
    /\ UNCHANGED <<sockets, exams, attempts, activityLog, emitted, now, pc,
                   req, exam, doc, delta>>

\* exam?.antiCheatSettings?.tabSwitchLimit || 3
MaxViolations(c) == IF c.limit # 0 THEN c.limit ELSE 3

\* the page opens with fresh refs and state, and startExam() sends the start
ClientMount(e) ==
    /\ client.mounts < MaxMounts
    /\ sockets[ClientSocket].connected
    /\ Quiet
    /\ Page([ NoClient EXCEPT !.mounts = client.mounts + 1,
                              !.examId = e,
                              !.sent = [op |-> "start", exam |-> e] ])

\* the interval of the timer fires while more than one second is left (all
\* these ticks are one step: nothing else reads timeLeft)
ClientCountdown ==
    /\ client.timer
    /\ client.timeLeft > 1
    /\ Page([ client EXCEPT !.timeLeft = 1 ])

\* the interval fires with one second left: clearInterval, autoSubmit()
ClientTimeout ==
    /\ client.timer
    /\ client.timeLeft <= 1
    /\ client.sent = NoCall
    /\ Page([ client EXCEPT
               !.timeLeft = 0,
               !.timer = FALSE,
               !.sent = IF client.attempt # Nil
                        THEN [op |-> "submit", autoSubmit |-> TRUE]
                        ELSE NoCall ])

\* the student presses Submit and confirms: submitExam()
ClientSubmitExam ==
    /\ client.attempt # Nil
    /\ ~client.submitted
    /\ client.sent = NoCall
    /\ Page([ client EXCEPT !.sent = [op |-> "submit", autoSubmit |-> FALSE] ])

\* INSTANT CANCEL RULES of doLogViolation
DoLogViolationCancels(c, type) ==
    type \in {"tab_switch", "window_blur", "screenshot"}

DoCancelExam(c) ==
    IF c.cancelled \/ c.submitted THEN c
    ELSE [ c EXCEPT !.cancelled = TRUE, !.submitted = TRUE, !.timer = FALSE,
                    !.listening = FALSE ]

\* a listener of setupAntiCheat fires: doLogViolation(type, ...)
ClientViolation(type) ==
    /\ client.listening
    /\ client.attempt # Nil
    /\ ~client.submitted
    /\ ~client.cancelled
    /\ client.sent = NoCall
    /\ client.violations < MaxReports
    /\ LET logged  == [ client EXCEPT !.violations = @ + 1 ]
           counted == IF type \in {"tab_switch", "window_blur"}
                      THEN [ logged EXCEPT !.tabSwitches = @ + 1 ]
                      ELSE logged
           after   == IF DoLogViolationCancels(counted, type)
                      THEN DoCancelExam(counted) ELSE counted
       IN  Page([ after EXCEPT !.sent = [op |-> "violation", type |-> type] ])

\* the data of the socket message 'violation' of doLogViolation
ClientData ==
    [ attemptId |-> client.attempt, examId |-> client.examId,
      studentId |-> ClientUser ]

\* ------------------------------------------------------------------------
\* The write to the ActivityLog collection fails (the database is not
\* reachable, ...): the handler's catch answers 500
\* ------------------------------------------------------------------------
StartLogFails(p) ==
    /\ pc[p] = "start_log"
    /\ Finish(p, Resp(req[p], 500, "Error starting exam", Nil))
    /\ UNCHANGED <<sockets, exams, attempts, activityLog, emitted, now>>

AnswerLogFails(p) ==
    /\ pc[p] = "answer_log"
    /\ Finish(p, Resp(req[p], 500, "Error saving answer", req[p].attemptId))
    /\ UNCHANGED <<sockets, exams, attempts, activityLog, emitted, now>>

SubmitLogFails(p) ==
    /\ pc[p] = "submit_log"
    /\ Finish(p, Resp(req[p], 500, "Error submitting exam",
                      req[p].attemptId))
    /\ UNCHANGED <<sockets, exams, attempts, activityLog, emitted, now>>

\* ------------------------------------------------------------------------
\* PUT /api/exams/:id (by the instructor of the exam): exam[key] = value for
\* the keys of the body, then exam.save(), which writes those paths
\* ------------------------------------------------------------------------
UpdateExam(e, key, value) ==
    /\ e \in DOMAIN exams
    /\ exams[e][key] # value
    /\ exams' = [exams EXCEPT ![e][key] = value]
    /\ response' = [ NoResponse EXCEPT !.op = "update_exam", !.code = 200 ]
    /\ UNCHANGED <<client, sockets, attempts, activityLog, emitted, now, pc, req, exam, doc,
                   delta>>

\* ------------------------------------------------------------------------
\* DELETE /api/exams/:id (by the instructor of the exam)
\* ------------------------------------------------------------------------
DeleteRequest(p, e, user) ==
    /\ FreeSlot(p)
    /\ LET r == [op |-> "delete_exam", exam |-> e, user |-> user,
                 attemptId |-> Nil]
       IN  IF e \notin DOMAIN exams
           THEN Finish(p, Resp(r, 404, "Exam not found", Nil))
           ELSE /\ req' = [req EXCEPT ![p] = r]
                /\ Continue(p, "delete_exam")
                /\ UNCHANGED <<exam, doc, delta>>
    /\ UNCHANGED <<sockets, exams, attempts, activityLog, emitted, now>>

\* await Exam.findByIdAndDelete(req.params.id)
DeleteExam(p) ==
    /\ pc[p] = "delete_exam"
    /\ exams' = [ x \in (DOMAIN exams) \ {req[p].exam} |-> exams[x] ]
    /\ Continue(p, "delete_attempts")
    /\ UNCHANGED <<sockets, attempts, activityLog, emitted, now, req, exam,
                   doc, delta>>

\* await ExamAttempt.deleteMany({ exam: req.params.id })
DeleteAttempts(p) ==
    /\ pc[p] = "delete_attempts"
    /\ attempts' = [ a \in 1..Len(attempts) |->
                       IF attempts[a].exam = req[p].exam
                       THEN [ attempts[a] EXCEPT !.deleted = TRUE ]
                       ELSE attempts[a] ]
    /\ Finish(p, Resp(req[p], 200, "none", Nil))
    /\ UNCHANGED <<sockets, exams, activityLog, emitted, now>>

\* ------------------------------------------------------------------------
\* Time passes
\* ------------------------------------------------------------------------
Tick ==
    /\ now < MaxTime
    /\ now' = now + 1
    /\ response' = NoResponse
    /\ UNCHANGED <<client, sockets, exams, attempts, activityLog, emitted, pc, req, exam, doc,
                   delta>>

\* ------------------------------------------------------------------------
\* Specification
\* ------------------------------------------------------------------------
\* an exam as POST /api/exams stores it and an instructor publishes it
PublishedExam ==
    [ isPublished |-> TRUE, allowMultipleAttempts |-> FALSE,
      startTime |-> Nil, endTime |-> Nil, duration |-> 1, totalMarks |-> 5,
      passingMarks |-> 2, tabSwitchLimit |-> 1, questions |-> Questions ]

\* the attempts whose start has answered: their ids are known to clients
Started ==
    { a \in 1..Len(attempts) :
        \A q \in Procs : ~(pc[q] = "start_log" /\ req[q].attemptId = a) }

InitRest ==
    /\ attempts = <<>>
    /\ activityLog = <<>>
    /\ emitted = <<>>
    /\ now = 0
    /\ pc = [p \in Procs |-> "idle"]
    /\ req = [p \in Procs |-> NoReq]
    /\ exam = [p \in Procs |-> NoExam]
    /\ doc = [p \in Procs |-> NoDoc]
    /\ delta = [p \in Procs |-> NoDelta]
    /\ response = NoResponse
    /\ sockets = [k \in SocketIds |-> NoSocket]
    /\ client = NoClient

Init ==
    /\ exams \in [ExamIds -> {PublishedExam}]
    /\ InitRest

\* The life of one attempt: its student starts it once, then answers,
\* violations, snapshots and submits arrive, two requests at a time
Next ==
    \/ \E p \in Procs, e \in ExamIds :
           /\ attempts = <<>>
           /\ InFlight({"start_find", "start_save"}) = 0
           /\ StartRequest(p, e, "s1")
    \/ \E p \in Procs, a \in Started, q \in QuestionIds,
          val \in AnswerValues : AnswerRequest(p, a, "s1", q, val)
    \/ \E p \in Procs, a \in Started, auto \in BOOLEAN :
           SubmitRequest(p, a, "s1", auto)
    \/ \E p \in Procs, a \in Started, type \in ViolationTypes :
           ViolationRequest(p, a, "s1", type)
    \/ \E p \in Procs, a \in Started : SnapshotRequest(p, a, TRUE)
    \/ \E p \in Procs : StartFind(p)
    \/ \E p \in Procs : StartSave(p)
    \/ \E p \in Procs : StartLog(p)
    \/ \E p \in Procs : AnswerSave(p)
    \/ \E p \in Procs : AnswerLog(p)
    \/ \E p \in Procs : SubmitGrade(p)
    \/ \E p \in Procs : SubmitSave(p)
    \/ \E p \in Procs : SubmitLog(p)
    \/ \E p \in Procs : ViolationFlag(p)
    \/ \E p \in Procs : ViolationSave(p)
    \/ \E p \in Procs : SnapshotSave(p)

Spec == Init /\ [][Next]_vars

\* Starting against the exam: one student starts exams of every
\* configuration (and a missing exam) while the clock runs, and submits
InitStart ==
    /\ exams \in [ExamIds -> ExamConfigs]
    /\ InitRest

NextStart ==
    \/ \E p \in Procs, e \in ExamIds \cup {MissingId} :
           StartRequest(p, e, "s1")
    \/ \E p \in Procs : StartFind(p)
    \/ \E p \in Procs : StartSave(p)
    \/ \E p \in Procs : StartLog(p)
    \/ \E p \in Procs, a \in Started :
           SubmitRequest(p, a, attempts[a].student, FALSE)
    \/ \E p \in Procs : SubmitGrade(p)
    \/ \E p \in Procs : SubmitSave(p)
    \/ \E p \in Procs : SubmitLog(p)
    \/ Tick

SpecStart == InitStart /\ [][NextStart]_vars

\* Starting again: two students start and submit attempts on an open exam,
\* with and without multiple attempts, two requests at a time
OpenExams ==
    { c \in ExamConfigs :
        c.isPublished /\ c.startTime = Nil /\ c.endTime = Nil }

InitResume ==
    /\ exams \in [ExamIds -> OpenExams]
    /\ InitRest

NextResume ==
    \/ \E p \in Procs, e \in ExamIds, s \in Students : StartRequest(p, e, s)
    \/ \E p \in Procs : StartFind(p)
    \/ \E p \in Procs : StartSave(p)
    \/ \E p \in Procs : StartLog(p)
    \/ \E p \in Procs, a \in Started :
           SubmitRequest(p, a, attempts[a].student, FALSE)
    \/ \E p \in Procs : SubmitGrade(p)
    \/ \E p \in Procs : SubmitSave(p)
    \/ \E p \in Procs : SubmitLog(p)

SpecResume == InitResume /\ [][NextResume]_vars

\* Requests the handlers turn down: the student of the attempt and another
\* user answer, submit and report violations on the attempt and on an
\* attempt that does not exist
NextReject ==
    \/ \E p \in Procs, e \in ExamIds :
           /\ attempts = <<>>
           /\ InFlight({"start_find", "start_save"}) = 0
           /\ StartRequest(p, e, "s1")
    \/ \E p \in Procs, a \in Started \cup {MissingId}, u \in Students,
          val \in AnswerValues : AnswerRequest(p, a, u, 1, val)
    \/ \E p \in Procs, a \in Started \cup {MissingId}, u \in Students :
           SubmitRequest(p, a, u, FALSE)
    \/ \E p \in Procs, a \in Started \cup {MissingId}, u \in Students :
           ViolationRequest(p, a, u, "tab_switch")
    \/ \E p \in Procs : StartFind(p)
    \/ \E p \in Procs : StartSave(p)
    \/ \E p \in Procs : StartLog(p)
    \/ \E p \in Procs : AnswerSave(p)
    \/ \E p \in Procs : AnswerLog(p)
    \/ \E p \in Procs : SubmitGrade(p)
    \/ \E p \in Procs : SubmitSave(p)
    \/ \E p \in Procs : SubmitLog(p)
    \/ \E p \in Procs : ViolationFlag(p)
    \/ \E p \in Procs : ViolationSave(p)

SpecReject == Init /\ [][NextReject]_vars

\* Flagging: exams of every stored tab-switch limit; the student starts one
\* attempt, violations are reported and the attempt is submitted
TabSwitchLimits == {0, 1}

LimitExams ==
    { [PublishedExam EXCEPT !.tabSwitchLimit = l] : l \in TabSwitchLimits }

InitFlag ==
    /\ exams \in [ExamIds -> LimitExams]
    /\ InitRest

NextFlag ==
    \/ \E p \in Procs, e \in ExamIds :
           /\ attempts = <<>>
           /\ InFlight({"start_find", "start_save"}) = 0
           /\ StartRequest(p, e, "s1")
    \/ \E p \in Procs, a \in Started, type \in ViolationTypes :
           ViolationRequest(p, a, "s1", type)
    \/ \E p \in Procs, a \in Started : SubmitRequest(p, a, "s1", FALSE)
    \/ \E p \in Procs : StartFind(p)
    \/ \E p \in Procs : StartSave(p)
    \/ \E p \in Procs : StartLog(p)
    \/ \E p \in Procs : SubmitGrade(p)
    \/ \E p \in Procs : SubmitSave(p)
    \/ \E p \in Procs : SubmitLog(p)
    \/ \E p \in Procs : ViolationFlag(p)
    \/ \E p \in Procs : ViolationSave(p)

SpecFlag == InitFlag /\ [][NextFlag]_vars

\* Grading: the student starts one attempt, answers questions of the exam
\* and a question the exam does not have, and submits
NextGrade ==
    \/ \E p \in Procs, e \in ExamIds :
           /\ attempts = <<>>
           /\ InFlight({"start_find", "start_save"}) = 0
           /\ StartRequest(p, e, "s1")
    \/ \E p \in Procs, a \in Started,
          q \in QuestionIds \cup {UnknownQuestionId}, val \in AnswerValues :
           AnswerRequest(p, a, "s1", q, val)
    \/ \E p \in Procs, a \in Started : SubmitRequest(p, a, "s1", FALSE)
    \/ \E p \in Procs : StartFind(p)
    \/ \E p \in Procs : StartSave(p)
    \/ \E p \in Procs : StartLog(p)
    \/ \E p \in Procs : AnswerSave(p)
    \/ \E p \in Procs : AnswerLog(p)
    \/ \E p \in Procs : SubmitGrade(p)
    \/ \E p \in Procs : SubmitSave(p)
    \/ \E p \in Procs : SubmitLog(p)

SpecGrade == Init /\ [][NextGrade]_vars

\* Marks: the instructor changes the total marks of the exam while the
\* student starts one attempt, answers and submits
TotalMarksValues == {0, 4}

MarksExam == [PublishedExam EXCEPT !.passingMarks = 3]

InitMarks ==
    /\ exams \in [ExamIds -> {MarksExam}]
    /\ InitRest

NextMarks ==
    \/ \E p \in Procs, e \in ExamIds :
           /\ attempts = <<>>
           /\ InFlight({"start_find", "start_save"}) = 0
           /\ StartRequest(p, e, "s1")
    \/ \E p \in Procs, a \in Started, q \in QuestionIds,
          val \in AnswerValues : AnswerRequest(p, a, "s1", q, val)
    \/ \E p \in Procs, a \in Started : SubmitRequest(p, a, "s1", FALSE)
    \/ \E e \in ExamIds, m \in TotalMarksValues :
           UpdateExam(e, "totalMarks", m)
    \/ \E p \in Procs : StartFind(p)
    \/ \E p \in Procs : StartSave(p)
    \/ \E p \in Procs : StartLog(p)
    \/ \E p \in Procs : AnswerSave(p)
    \/ \E p \in Procs : AnswerLog(p)
    \/ \E p \in Procs : SubmitGrade(p)
    \/ \E p \in Procs : SubmitSave(p)
    \/ \E p \in Procs : SubmitLog(p)

SpecMarks == InitMarks /\ [][NextMarks]_vars

\* Failing writes: the student starts one attempt, answers question 1 and
\* submits, and any write to the activity log may fail
NextFail ==
    \/ \E p \in Procs, e \in ExamIds :
           /\ attempts = <<>>
           /\ InFlight({"start_find", "start_save"}) = 0
           /\ StartRequest(p, e, "s1")
    \/ \E p \in Procs, a \in Started, val \in AnswerValues :
           AnswerRequest(p, a, "s1", 1, val)
    \/ \E p \in Procs, a \in Started : SubmitRequest(p, a, "s1", FALSE)
    \/ \E p \in Procs : StartFind(p)
    \/ \E p \in Procs : StartSave(p)
    \/ \E p \in Procs : StartLog(p)
    \/ \E p \in Procs : StartLogFails(p)
    \/ \E p \in Procs : AnswerSave(p)
    \/ \E p \in Procs : AnswerLog(p)
    \/ \E p \in Procs : AnswerLogFails(p)
    \/ \E p \in Procs : SubmitGrade(p)
    \/ \E p \in Procs : SubmitSave(p)
    \/ \E p \in Procs : SubmitLog(p)
    \/ \E p \in Procs : SubmitLogFails(p)

SpecFail == Init /\ [][NextFail]_vars

\* Fan-out: clients connect, register, send events and disconnect while a
\* student starts an attempt
SocketData == { [attemptId |-> 1, examId |-> 1, studentId |-> "s1"] }

NextFanout ==
    \/ \E k \in SocketIds : Connect(k)
    \/ \E k \in SocketIds, role \in Roles : Register(k, role)
    \/ \E k \in SocketIds : Disconnect(k)
    \/ \E k \in SocketIds, data \in SocketData : SocketViolation(k, data)
    \/ \E k \in SocketIds, data \in SocketData : SocketActivity(k, data)
    \/ \E p \in Procs, e \in ExamIds :
           /\ attempts = <<>>
           /\ InFlight({"start_find", "start_save"}) = 0
           /\ StartRequest(p, e, "s1")
    \/ \E p \in Procs : StartFind(p)
    \/ \E p \in Procs : StartSave(p)
    \/ \E p \in Procs : StartLog(p)

SpecFanout == Init /\ [][NextFanout]_vars

\* Reading: exams that differ only in their answer keys; a student starts,
\* resumes and submits an attempt, and the students and the instructor read
\* the exams and the attempts
AnswerKeys == { <<"A">>, <<"B">> }
Explanations == { "E1", "E3" }

KeyExams ==
    { [PublishedExam EXCEPT !.questions[1].correctAnswer = k,
                            !.questions[1].explanation = x] :
        k \in AnswerKeys, x \in Explanations }

InitRead ==
    /\ exams \in [ExamIds -> KeyExams]
    /\ InitRest

NextRead ==
    \/ \E p \in Procs, e \in ExamIds : StartRequest(p, e, "s1")
    \/ \E p \in Procs : StartFind(p)
    \/ \E p \in Procs : StartSave(p)
    \/ \E p \in Procs : StartLog(p)
    \/ \E p \in Procs, a \in Started :
           SubmitRequest(p, a, attempts[a].student, FALSE)
    \/ \E p \in Procs : SubmitGrade(p)
    \/ \E p \in Procs : SubmitSave(p)
    \/ \E p \in Procs : SubmitLog(p)
    \/ \E u \in Students \cup Instructors : GetExams(u)
    \/ \E e \in ExamIds \cup {MissingId}, u \in Students \cup Instructors :
           GetExam(e, u)
    \/ \E a \in Started \cup {MissingId}, u \in Students \cup Instructors :
           GetAttempt(a, u)

SpecRead == InitRead /\ [][NextRead]_vars

\* Deleting: the instructor deletes the exam while two students start and
\* submit attempts
NextDelete ==
    \/ \E p \in Procs, e \in ExamIds, s \in Students : StartRequest(p, e, s)
    \/ \E p \in Procs : StartFind(p)
    \/ \E p \in Procs : StartSave(p)
    \/ \E p \in Procs : StartLog(p)
    \/ \E p \in Procs, a \in Started :
           SubmitRequest(p, a, attempts[a].student, FALSE)
    \/ \E p \in Procs : SubmitGrade(p)
    \/ \E p \in Procs : SubmitSave(p)
    \/ \E p \in Procs : SubmitLog(p)
    \/ \E p \in Procs, e \in ExamIds, u \in Instructors :
           DeleteRequest(p, e, u)
    \/ \E p \in Procs : DeleteExam(p)
    \/ \E p \in Procs : DeleteAttempts(p)

SpecDelete == Init /\ [][NextDelete]_vars

\* The exam page: the student logs in, opens the exam page (and opens it
\* again), the timer runs, listeners report violations and the student
\* submits; every request comes from the page
ClientLimits == {1, 3}

ClientExams ==
    { [PublishedExam EXCEPT !.tabSwitchLimit = l] : l \in ClientLimits }

InitClient ==
    /\ exams \in [ExamIds -> ClientExams]
    /\ InitRest

NextClient ==
    \/ Connect(ClientSocket)
    \/ /\ sockets[ClientSocket].role = "none"
       /\ Register(ClientSocket, "student")
    \/ \E e \in ExamIds : ClientMount(e)
    \/ ClientCountdown
    \/ ClientTimeout
    \/ ClientSubmitExam
    \/ \E type \in ViolationTypes : ClientViolation(type)
    \/ \E p \in Procs :
           /\ client.sent.op = "start"
           /\ StartRequest(p, client.sent.exam, ClientUser)
    \/ \E p \in Procs :
           /\ client.sent.op = "submit"
           /\ SubmitRequest(p, client.attempt, ClientUser,
                            client.sent.autoSubmit)
    \/ \E p \in Procs :
           /\ client.sent.op = "violation"
           /\ ViolationRequest(p, client.attempt, ClientUser,
                               client.sent.type)
    \/ /\ client.outbox > 0
       /\ SocketViolation(ClientSocket, ClientData)
    \/ \E p \in Procs : StartFind(p)
    \/ \E p \in Procs : StartSave(p)
    \/ \E p \in Procs : StartLog(p)
    \/ \E p \in Procs : SubmitGrade(p)
    \/ \E p \in Procs : SubmitSave(p)
    \/ \E p \in Procs : SubmitLog(p)
    \/ \E p \in Procs : ViolationFlag(p)
    \/ \E p \in Procs : ViolationSave(p)

SpecClient == InitClient /\ [][NextClient]_vars

\* Short answers: the expected answer of the short_answer question and the
\* submission are any strings over the alphabet; the student starts, answers
\* the question once and submits
Alphabet == {"a", "B", " ", "\t"}

Strings(n) == UNION { [1..k -> Alphabet] : k \in 0..n }

ShortExams ==
    { [PublishedExam EXCEPT !.questions[2].correctAnswer = x] :
        x \in Strings(MaxExpected) }

InitShort ==
    /\ exams \in [ExamIds -> ShortExams]
    /\ InitRest

NextShort ==
    \/ \E p \in Procs, e \in ExamIds :
           /\ attempts = <<>>
           /\ InFlight({"start_find", "start_save"}) = 0
           /\ StartRequest(p, e, "s1")
    \/ \E p \in Procs, a \in Started, val \in Strings(MaxSubmission) :
           /\ attempts[a].answers = <<>>
           /\ \A q \in Procs : pc[q] = "idle"
           /\ AnswerRequest(p, a, "s1", 2, val)
    \/ \E p \in Procs, a \in Started :
           /\ \A q \in Procs : pc[q] = "idle"
           /\ SubmitRequest(p, a, "s1", FALSE)
    \/ \E p \in Procs : StartFind(p)
    \/ \E p \in Procs : StartSave(p)
    \/ \E p \in Procs : StartLog(p)
    \/ \E p \in Procs : AnswerSave(p)
    \/ \E p \in Procs : AnswerLog(p)
    \/ \E p \in Procs : SubmitGrade(p)
    \/ \E p \in Procs : SubmitSave(p)
    \/ \E p \in Procs : SubmitLog(p)

SpecShort == InitShort /\ [][NextShort]_vars

\* ------------------------------------------------------------------------
\* Properties
\* ------------------------------------------------------------------------
Submitted(a) ==
    \E i \in 1..Len(emitted) :
        emitted[i].event = "exam-submitted" /\ emitted[i].attemptId = a

SubmitEvents(a) ==
    { i \in 1..Len(emitted) :
        emitted[i].event = "exam-submitted" /\ emitted[i].attemptId = a }

\* the attempts of a student on an exam, and the earliest of them
AttemptsOf(e, student) ==
    { a \in 1..Len(attempts) :
        attempts[a].exam = e /\ attempts[a].student = student }

Earliest(S) == CHOOSE a \in S : \A b \in S : a <= b

\* C1: once a submit of an attempt has succeeded, every later submit of its
\* student on that attempt (auto or not) is answered 400 "Already submitted"
\* and changes neither the stored attempts nor the events
C1_SubmitOnce ==
    [][ \A p \in Procs, a \in 1..Len(attempts), auto \in BOOLEAN :
          (Submitted(a) /\ SubmitRequest(p, a, attempts[a].student, auto))
          => /\ response'.op = "submit"
             /\ response'.code = 400
             /\ response'.error = "Already submitted"
             /\ attempts' = attempts
             /\ emitted' = emitted ]_vars

C1_Witness ==
    /\ response.op = "submit"
    /\ response.code = 400
    /\ response.attemptId \in 1..Len(attempts)
    /\ Submitted(response.attemptId)
    /\ attempts[response.attemptId].score > 0

\* C2: of two concurrent submits of an attempt exactly one succeeds: no
\* attempt has more than one successful submit
C2_OneSubmitSucceeds ==
    \A a \in 1..Len(attempts) : Cardinality(SubmitEvents(a)) <= 1

\* C3: every attempt is created in_progress, and a status that has left
\* in_progress never changes again
C3_StatusMonotonic ==
    [][ /\ \A a \in 1..Len(attempts) :
              attempts[a].status # "in_progress"
              => attempts'[a].status = attempts[a].status
        /\ \A a \in (Len(attempts) + 1)..Len(attempts') :
              attempts'[a].status = "in_progress" ]_vars

\* C4: once the stored status of an attempt is terminal, its answers,
\* violations, tab-switch counter, score, percentage and pass flag never
\* change
C4_FrozenWhenTerminal ==
    [][ \A a \in 1..Len(attempts) :
          attempts[a].status \in TerminalStatuses
          => /\ attempts'[a].answers = attempts[a].answers
             /\ attempts'[a].violations = attempts[a].violations
             /\ attempts'[a].tabSwitches = attempts[a].tabSwitches
             /\ attempts'[a].score = attempts[a].score
             /\ attempts'[a].percentage = attempts[a].percentage
             /\ attempts'[a].passed = attempts[a].passed ]_vars

\* C5: a stored flagged = true is never set back to false
C5_FlagMonotonic ==
    [][ \A a \in 1..Len(attempts) :
          attempts[a].flagged => attempts'[a].flagged ]_vars

\* flagged by the violation handler, then submitted by a submit whose own
\* flag check did not fire
C5_Witness ==
    \E a \in 1..Len(attempts) :
        /\ attempts[a].flagged
        /\ attempts[a].flagReason.kind = "auto"
        /\ attempts[a].status \in TerminalStatuses

\* C6: an exam without multiple attempts never has two in_progress attempts
\* of one student
C6_SingleActiveAttempt ==
    \A e \in DOMAIN exams, s \in Students :
        ~exams[e].allowMultipleAttempts
        => Cardinality({ a \in AttemptsOf(e, s) :
                           attempts[a].status = "in_progress" }) <= 1

\* C7: when the lookup of a start finds the student's earlier attempt on the
\* exam still in_progress, the start answers 200 with that attempt and the
\* stored attempts, the logs and the events are unchanged
C7_IdempotentResume ==
    [][ \A p \in Procs :
          (/\ pc[p] = "start_find"
           /\ StartFind(p)
           /\ AttemptsOf(req[p].exam, req[p].user) # {}
           /\ attempts[Earliest(AttemptsOf(req[p].exam, req[p].user))].status
                  = "in_progress")
          => /\ response'.op = "start"
             /\ response'.code = 200
             /\ response'.attemptId
                    = Earliest(AttemptsOf(req[p].exam, req[p].user))
             /\ attempts' = attempts
             /\ activityLog' = activityLog
             /\ emitted' = emitted ]_vars

C7_Witness ==
    /\ response.op = "start"
    /\ response.code = 200
    /\ response.attemptId \in 1..Len(attempts)
    /\ attempts[response.attemptId].status = "in_progress"

\* the exam is missing, unpublished or the clock is outside its window
StartMustFail(e) ==
    \/ e \notin DOMAIN exams
    \/ ~exams[e].isPublished
    \/ exams[e].startTime # Nil /\ now < exams[e].startTime
    \/ exams[e].endTime # Nil /\ now > exams[e].endTime

\* C8: a start that fails (exam missing: 404; unpublished or outside the
\* window: 400; a finalized attempt and no retakes: 400) ends at once,
\* stores no attempt and no log and emits no event
C8_FailedStartCreatesNothing ==
    [][ /\ \A p \in Procs, e \in ExamIds \cup {MissingId} :
              (StartRequest(p, e, "s1") /\ StartMustFail(e))
              => /\ response'.op = "start"
                 /\ response'.code = IF e \in DOMAIN exams THEN 400 ELSE 404
                 /\ pc'[p] = "idle"
                 /\ attempts' = attempts
                 /\ activityLog' = activityLog
                 /\ emitted' = emitted
        /\ \A p \in Procs :
              (/\ pc[p] = "start_find"
               /\ StartFind(p)
               /\ \E a \in AttemptsOf(req[p].exam, req[p].user) :
                      attempts[a].status \in TerminalStatuses)
              => /\ pc'[p] = "idle"
                 /\ attempts' = attempts
                 /\ activityLog' = activityLog
                 /\ emitted' = emitted
                 /\ attempts[Earliest(AttemptsOf(req[p].exam,
                                                 req[p].user))].status
                        \in TerminalStatuses
                    => response'.code = 400 ]_vars

\* a start refused outside the window, after an attempt was stored
C8_Witness ==
    /\ response.op = "start"
    /\ response.code = 400
    /\ response.error = "Exam has ended"
    /\ attempts # <<>>

\* C9: every attempt a start stores is in_progress, carries the exam's
\* totalMarks, has no answers and no violations, tab-switch counter 0,
\* score 0 and flagged = false
C9_FreshAttempt ==
    [][ \A a \in (Len(attempts) + 1)..Len(attempts') :
          /\ attempts'[a].status = "in_progress"
          /\ attempts'[a].totalMarks = exams[attempts'[a].exam].totalMarks
          /\ attempts'[a].answers = <<>>
          /\ attempts'[a].violations = <<>>
          /\ attempts'[a].tabSwitches = 0
          /\ attempts'[a].score = 0
          /\ attempts'[a].flagged = FALSE ]_vars

C9_Witness ==
    /\ response.op = "start"
    /\ response.code = 201
    /\ attempts[response.attemptId].status = "in_progress"
    /\ attempts[response.attemptId].totalMarks = 5

\* C10: an attempt never holds two answers of one question
C10_OneAnswerPerQuestion ==
    \A a \in 1..Len(attempts) :
        \A i, j \in 1..Len(attempts[a].answers) :
            i # j => attempts[a].answers[i].questionId
                         # attempts[a].answers[j].questionId


\* the attempt ids a request can name: the stored ones and a missing one
AttemptIds == (1..Len(attempts)) \cup {MissingId}

\* C11: an answer request on an attempt that is missing is answered 404, one
\* by the attempt's student on an attempt whose stored status is not
\* in_progress is answered 400; in both cases the handler ends there and no
\* attempt changes
C11_AnswerRejected ==
    [][\A p \in Procs, a \in AttemptIds, u \in Students, q \in QuestionIds,
          val \in AnswerValues :
          AnswerRequest(p, a, u, q, val) =>
              /\ ~AttemptExists(a) =>
                     /\ response'.op = "answer" /\ response'.code = 404
                     /\ pc'[p] = "idle" /\ attempts' = attempts
              /\ (AttemptExists(a) /\ attempts[a].student = u
                     /\ attempts[a].status # "in_progress") =>
                     /\ response'.op = "answer" /\ response'.code = 400
                     /\ pc'[p] = "idle" /\ attempts' = attempts]_vars

C11_Witness ==
    /\ response.op = "answer" /\ response.code = 400
    /\ AttemptExists(response.attemptId)
    /\ attempts[response.attemptId].status \in TerminalStatuses
    /\ attempts[response.attemptId].answers # <<>>

\* C12: an answer or submit request by a caller who is not the attempt's
\* student is answered 403 whatever the status of the attempt; the handler
\* ends there and no attempt changes
C12_OwnerOnly ==
    [][\A p \in Procs, a \in 1..Len(attempts), u \in Students :
          u # attempts[a].student =>
              /\ \A q \in QuestionIds, val \in AnswerValues :
                     AnswerRequest(p, a, u, q, val) =>
                         /\ response'.op = "answer" /\ response'.code = 403
                         /\ pc'[p] = "idle" /\ attempts' = attempts
              /\ \A auto \in BOOLEAN :
                     SubmitRequest(p, a, u, auto) =>
                         /\ response'.op = "submit" /\ response'.code = 403
                         /\ pc'[p] = "idle" /\ attempts' = attempts]_vars

C12_Witness ==
    /\ response.op = "submit" /\ response.code = 403
    /\ attempts[response.attemptId].status = "in_progress"
    /\ attempts[response.attemptId].answers # <<>>

\* C13: a violation request on an attempt whose stored status is not
\* in_progress is answered 400; the handler ends there, the attempt (ledger,
\* tabSwitches, flagged, flagReason) is unchanged and nothing is emitted
C13_ViolationRejected ==
    [][\A p \in Procs, a \in 1..Len(attempts), u \in Students,
          type \in ViolationTypes :
          (attempts[a].status # "in_progress"
             /\ ViolationRequest(p, a, u, type)) =>
              /\ response'.op = "violation" /\ response'.code = 400
              /\ pc'[p] = "idle"
              /\ attempts' = attempts /\ emitted' = emitted]_vars

C13_Witness ==
    /\ response.op = "violation" /\ response.code = 400
    /\ attempts[response.attemptId].status \in TerminalStatuses
    /\ attempts[response.attemptId].violations # <<>>

IsPrefix(s, t) == Len(s) <= Len(t) /\ SubSeq(t, 1, Len(s)) = s

\* C14: every step leaves the stored violations of every attempt a prefix of
\* what they are after the step, and the save of a violation handler makes
\* them exactly one entry longer
C14_LedgerAppendOnly ==
    [][/\ \A a \in 1..Len(attempts) :
             IsPrefix(attempts[a].violations, attempts'[a].violations)
       /\ \A p \in Procs :
             ViolationSave(p) =>
                 /\ response'.code = 200
                 /\ Len(attempts'[req[p].attemptId].violations)
                      = Len(attempts[req[p].attemptId].violations) + 1]_vars

C14_Witness ==
    /\ response.op = "violation" /\ response.code = 200
    /\ attempts[response.attemptId].violations
         = << [type |-> "right_click"], [type |-> "tab_switch"] >>

TabSwitchEntries(att) ==
    { i \in 1..Len(att.violations) : att.violations[i].type = "tab_switch" }

\* C15: the tabSwitches counter of every stored attempt equals the number
\* of its violations of type tab_switch
C15_TabSwitchCounter ==
    \A a \in 1..Len(attempts) :
        attempts[a].tabSwitches = Cardinality(TabSwitchEntries(attempts[a]))

\* the tab-switch limit the exam of attempt a stores
StoredLimit(a) == exams[attempts[a].exam].tabSwitchLimit

\* C16: with L the limit the exam stores (0 included), the save of a
\* violation handler leaves the attempt flagged exactly when it was flagged
\* before or the stored ledger is then at least 2 x L long
C16_ViolationFlag ==
    [][\A p \in Procs :
          ViolationSave(p) =>
              LET a == req[p].attemptId
              IN  attempts'[a].flagged
                    = (attempts[a].flagged
                       \/ Len(attempts'[a].violations) >= 2 * StoredLimit(a))
      ]_vars

\* C17: with L the limit the exam stores, the successful save of a submit
\* handler leaves the attempt flagged exactly when it was flagged before or
\* its tabSwitches or the length of its ledger is at least L, and when that
\* check fires the stored flagReason is the one the submit handler writes
C17_SubmitFlag ==
    [][\A p \in Procs :
          (SubmitSave(p) /\ pc'[p] = "submit_log") =>
              LET a == req[p].attemptId
                  fires == \/ attempts'[a].tabSwitches >= StoredLimit(a)
                           \/ Len(attempts'[a].violations) >= StoredLimit(a)
              IN  /\ attempts'[a].flagged = (attempts[a].flagged \/ fires)
                  /\ fires => attempts'[a].flagReason.kind = "submit"]_vars

\* the answers of att whose question the exam ex has
KnownAnswers(ex, att) ==
    { i \in 1..Len(att.answers) : HasQuestion(ex, att.answers[i].questionId) }

\* C18: the stored score of every attempt is the sum of the stored
\* marksAwarded of its answers whose question is in the exam; an answer
\* whose question is not in the exam is left ungraded with 0 marks
C18_ScoreIsSum ==
    \A a \in 1..Len(attempts) :
        LET att == attempts[a]
            ex  == exams[att.exam]
        IN  /\ att.score
                 = SumOver([i \in 1..Len(att.answers) |->
                              att.answers[i].marksAwarded],
                           KnownAnswers(ex, att))
            /\ \A i \in (1..Len(att.answers)) \ KnownAnswers(ex, att) :
                   /\ att.answers[i].marksAwarded = 0
                   /\ att.answers[i].isCorrect = "undefined"

\* the answers are equal once trimmed and lower-cased
SameNormalized(s, t) == toLowerCase(trim(s)) = toLowerCase(trim(t))

ExactTypes == {"multiple_choice", "true_false"}

\* C19: every answer to a multiple_choice or true_false question the submit
\* handler grades gets the full marks of the question when it equals the
\* correct answer after trimming and lower-casing and 0 otherwise, and no
\* stored answer to such a question ever has another value
C19_NoPartialCredit ==
    [][/\ \A p \in Procs :
             SubmitGrade(p) =>
                 \A i \in KnownAnswers(exam'[p], doc'[p]) :
                     LET ans == doc'[p].answers[i]
                         question == QuestionById(exam'[p], ans.questionId)
                     IN  question.type \in ExactTypes =>
                             ans.marksAwarded
                               = IF SameNormalized(ans.answer,
                                                   question.correctAnswer)
                                 THEN question.marks ELSE 0
       /\ \A a \in 1..Len(attempts') :
             \A i \in KnownAnswers(exams'[attempts'[a].exam], attempts'[a]) :
                 LET ans == attempts'[a].answers[i]
                     question == QuestionById(exams'[attempts'[a].exam],
                                              ans.questionId)
                 IN  question.type \in ExactTypes =>
                         ans.marksAwarded \in {0, question.marks}]_vars

C19_Witness ==
    \E a \in 1..Len(attempts) :
        /\ attempts[a].status = "submitted"
        /\ Len(attempts[a].answers) = 2
        /\ attempts[a].answers[1]
             = [ questionId |-> 1, answer |-> <<"b", " ">>,
                 isCorrect |-> "true", marksAwarded |-> 2 ]
        /\ attempts[a].answers[2].questionId = 2

\* the mapping question -> value the answers hold, as a set of pairs
AnswerMap(answers) ==
    { <<answers[i].questionId, answers[i].answer>> : i \in 1..Len(answers) }

\* the score of a mapping: the marks of every question of the exam it
\* answers correctly
ScoreOfMap(ex, m) ==
    SumOver([x \in m |->
               IF HasQuestion(ex, x[1])
               THEN MarksAwarded(QuestionById(ex, x[1]), x[2]) ELSE 0], m)

\* C20: when the answers the submit handler grades hold one value per
\* question, the score, percentage and pass result it computes are those of
\* that mapping, whatever calls built it
C20_GradingDeterminism ==
    [][\A p \in Procs :
          (SubmitGrade(p) /\ pc'[p] = "submit_save") =>
              LET m == AnswerMap(doc[p].answers)
                  sc == ScoreOfMap(exam'[p], m)
              IN  (\A x, y \in m : x[1] = y[1] => x = y) =>
                      /\ doc'[p].score = sc
                      /\ doc'[p].percentage = Percentage(exam'[p], sc)
                      /\ doc'[p].passed = Passed(exam'[p], sc)]_vars

\* C21: the stored percentage of every finalized attempt is
\* round(score / totalMarks x 100) for the totalMarks stored on the attempt,
\* and 0 when that totalMarks is 0
C21_PercentageOfSnapshot ==
    \A a \in 1..Len(attempts) :
        attempts[a].status \in TerminalStatuses =>
            attempts[a].percentage
              = IF attempts[a].totalMarks > 0
                THEN RoundPct(attempts[a].score, attempts[a].totalMarks)
                ELSE 0

\* C22: the stored passed of every finalized attempt is true exactly when
\* its stored score is at least the passingMarks of its exam
C22_PassedIffScore ==
    \A a \in 1..Len(attempts) :
        attempts[a].status \in TerminalStatuses =>
            attempts[a].passed
              = (attempts[a].score >= exams[attempts[a].exam].passingMarks)

C24_GradesAcknowledged ==
    [][\A p \in Procs, a \in 1..Len(attempts), auto \in BOOLEAN :
          (/\ InFlight({"answer_save", "answer_log"}) = 0
           /\ SubmitRequest(p, a, attempts[a].student, auto)
           /\ pc'[p] = "submit_grade") =>
              /\ doc'[p].answers = attempts[a].answers
              /\ \A i, j \in 1..Len(doc'[p].answers) :
                     doc'[p].answers[i].questionId
                       = doc'[p].answers[j].questionId
                     => doc'[p].answers[i].answer = doc'[p].answers[j].answer
      ]_vars

\* C25: when a handler answers 500 because its write to the activity log
\* failed, the attempts are as before the operation: the attempt a start
\* was creating is not stored, the question an answer was adding has no
\* stored answer, the attempt a submit was finalizing is still in_progress
C25_AllOrNothing ==
    [][\A p \in Procs :
          /\ StartLogFails(p) => ~(req[p].attemptId \in 1..Len(attempts'))
          /\ (AnswerLogFails(p) /\ delta[p].pushAnswers # <<>>) =>
                 \A i \in 1..Len(attempts'[req[p].attemptId].answers) :
                     attempts'[req[p].attemptId].answers[i].questionId
                       # req[p].questionId
          /\ SubmitLogFails(p) =>
                 attempts'[req[p].attemptId].status = "in_progress"]_vars

\* C26: an attempt stored in_progress has score 0, percentage 0, passed
\* false and no submittedAt, and the saves of the answer, violation and
\* snapshot handlers leave score, percentage, passed, status and the
\* isCorrect and marksAwarded of every answer as they are (an answer they
\* add is ungraded)
C26_NoGradingBeforeSubmit ==
    [][/\ \A a \in 1..Len(attempts') :
             attempts'[a].status = "in_progress" =>
                 /\ attempts'[a].score = 0
                 /\ attempts'[a].percentage = 0
                 /\ attempts'[a].passed = FALSE
                 /\ attempts'[a].submittedAt = Nil
       /\ \A p \in Procs :
             (AnswerSave(p) \/ ViolationSave(p) \/ SnapshotSave(p)) =>
                 LET old == attempts[req[p].attemptId]
                     new == attempts'[req[p].attemptId]
                 IN  /\ new.score = old.score
                     /\ new.percentage = old.percentage
                     /\ new.passed = old.passed
                     /\ new.status = old.status
                     /\ Len(new.answers) >= Len(old.answers)
                     /\ \A i \in 1..Len(new.answers) :
                            IF i <= Len(old.answers)
                            THEN /\ new.answers[i].isCorrect
                                      = old.answers[i].isCorrect
                                 /\ new.answers[i].marksAwarded
                                      = old.answers[i].marksAwarded
                            ELSE /\ new.answers[i].isCorrect = "undefined"
                                 /\ new.answers[i].marksAwarded = 0]_vars

C26_Witness ==
    /\ response.op = "answer" /\ response.code = 200
    /\ attempts[response.attemptId].status = "submitted"
    /\ attempts[response.attemptId].score > 0
    /\ \E i \in 1..Len(attempts[response.attemptId].answers) :
           attempts[response.attemptId].answers[i].isCorrect = "undefined"

\* C27: the save of every violation handler is followed by one
\* violation-alert event whose totalViolations and tabSwitches are the
\* length of the stored ledger and the stored counter after the append,
\* flagged or not
C27_ViolationAlert ==
    [][\A p \in Procs :
          ViolationSave(p) =>
              LET a == req[p].attemptId
              IN  /\ Len(emitted') = Len(emitted) + 1
                  /\ SubSeq(emitted', 1, Len(emitted)) = emitted
                  /\ emitted'[Len(emitted')].event = "violation-alert"
                  /\ emitted'[Len(emitted')].attemptId = a
                  /\ emitted'[Len(emitted')].totalViolations
                       = Len(attempts'[a].violations)
                  /\ emitted'[Len(emitted')].tabSwitches
                       = attempts'[a].tabSwitches]_vars

\* C28: when a submit handler publishes exam-submitted, no exam-submitted
\* event of the attempt has been published before, the stored status of the
\* attempt is terminal, and the score, percentage, passed and flagged of the
\* event are those stored on the attempt
C28_SubmittedEvent ==
    [][\A p \in Procs :
          SubmitLog(p) =>
              LET a  == req[p].attemptId
                  ev == emitted'[Len(emitted')]
              IN  /\ ~Submitted(a)
                  /\ ev.event = "exam-submitted" /\ ev.attemptId = a
                  /\ attempts[a].status \in TerminalStatuses
                  /\ ev.score = attempts'[a].score
                  /\ ev.percentage = attempts'[a].percentage
                  /\ ev.passed = attempts'[a].passed
                  /\ ev.flagged = attempts'[a].flagged]_vars

StartEvents(a) ==
    { i \in 1..Len(emitted) :
        emitted[i].event = "exam-started" /\ emitted[i].attemptId = a }

NewlyReceived(k) == sockets'[k].received \ sockets[k].received

\* C30: a connection receives in a step at most the event published in that
\* step (nothing published earlier is delivered later), only while it is
\* connected and registered, and never while the role it is registered with
\* is student
C30_NoBufferedFanout ==
    [][\A k \in SocketIds :
          /\ NewlyReceived(k) \subseteq
                (IF Len(emitted') > Len(emitted) THEN {Len(emitted')} ELSE {})
          /\ NewlyReceived(k) # {} =>
                 /\ sockets[k].connected
                 /\ sockets[k].role \in Roles
                 /\ sockets[k].role # "student"]_vars

\* the question objects of the exam objects of the last response
ResponseQuestions ==
    UNION { { response.exams[i].questions[j] :
                j \in 1..Len(response.exams[i].questions) } :
            i \in 1..Len(response.exams) }

\* the exams k and ex differ at most in their answer keys
SameButKeys(k, ex) ==
    /\ Len(k.questions) = Len(ex.questions)
    /\ [ k EXCEPT !.questions = <<>> ] = [ ex EXCEPT !.questions = <<>> ]
    /\ \A i \in 1..Len(k.questions) :
           Without(k.questions[i], {"correctAnswer", "explanation"})
               = Without(ex.questions[i], {"correctAnswer", "explanation"})

\* C31: the exam of a start response, for a new attempt (201) and for a
\* resumed one (200), has no question with a correctAnswer or an explanation
\* field, and it is the exam object every exam that differs only in its
\* answer keys gives
C31_StartSanitized ==
    (response.op = "start" /\ response.code \in {200, 201}) =>
        /\ Len(response.exams) = 1
        /\ \A q \in ResponseQuestions :
               "correctAnswer" \notin DOMAIN q /\ "explanation" \notin DOMAIN q
        /\ \A k \in KeyExams :
               SameButKeys(k, exams[attempts[response.attemptId].exam])
                   => response.exams = <<SanitizedExam(k)>>

\* a resumed attempt is handed back with the exam
C31_Witness ==
    /\ response.op = "start" /\ response.code = 200
    /\ Len(response.exams) = 1
    /\ Len(response.exams[1].questions) = 2

\* C32: while an attempt of a student is in_progress, no successful response
\* to that student (exam list, single exam, start, their own attempt) holds
\* a question with a correctAnswer
C32_NoAnswerKeyToStudent ==
    ( /\ response.code \in {200, 201}
      /\ response.user \in Students
      /\ \E a \in 1..Len(attempts) :
             /\ attempts[a].student = response.user
             /\ attempts[a].status = "in_progress" )
    => \A q \in ResponseQuestions : "correctAnswer" \notin DOMAIN q

\* the tokens of s that white space delimits
RECURSIVE Tokens(_)
Tokens(s) ==
    IF s = <<>> THEN {}
    ELSE IF Head(s) \in WhiteSpace THEN Tokens(Tail(s))
    ELSE LET n == CHOOSE k \in 1..Len(s) :
                      /\ \A j \in 1..k : s[j] \notin WhiteSpace
                      /\ k = Len(s) \/ s[k + 1] \in WhiteSpace
         IN  {SubSeq(s, 1, n)} \cup Tokens(SubSeq(s, n + 1, Len(s)))

\* the rule of short answers, by its statement
ShortAnswerRule(expected, submission) ==
    LET correct == trim(toLowerCase(expected))
        student == trim(toLowerCase(submission))
    IN  \/ student = correct
        \/ \A w \in Tokens(correct) : includes(student, w)

\* C33: a graded answer to a short_answer question is correct, with the
\* marks of the question, iff the trimmed lower-cased submission equals the
\* trimmed lower-cased expected answer or holds every token of it that white
\* space delimits; otherwise it is incorrect with 0 marks
C33_ShortAnswerRule ==
    \A a \in 1..Len(attempts) :
        attempts[a].status = "submitted" =>
            \A i \in 1..Len(attempts[a].answers) :
                LET ans == attempts[a].answers[i]
                    question == QuestionById(exams[attempts[a].exam],
                                             ans.questionId)
                IN  question.type = "short_answer" =>
                        IF ShortAnswerRule(question.correctAnswer, ans.answer)
                        THEN /\ ans.isCorrect = "true"
                             /\ ans.marksAwarded = question.marks
                        ELSE /\ ans.isCorrect = "false"
                             /\ ans.marksAwarded = 0

\* the positions in emitted of the events of the kind ev for attempt a
EventsOf(a, ev) ==
    { i \in 1..Len(emitted) :
        emitted[i].event = ev /\ emitted[i].attemptId = a }

\* C38: among the events published for one attempt, exam-started comes
\* before every violation-alert and before exam-submitted, and no
\* violation-alert comes after exam-submitted
C38_EventOrder ==
    \A a \in 1..Len(attempts) :
        /\ \A i \in EventsOf(a, "violation-alert") \cup
                     EventsOf(a, "exam-submitted") :
               \E j \in EventsOf(a, "exam-started") : j < i
        /\ \A i \in EventsOf(a, "violation-alert"),
                j \in EventsOf(a, "exam-submitted") : i < j

\* C40: once the deletion of an exam has completed, the store holds no
\* attempt that refers to it
C40_NoOrphanAttempts ==
    \A a \in 1..Len(attempts) :
        ( /\ ~attempts[a].deleted
          /\ attempts[a].exam \notin DOMAIN exams )
        => \E p \in Procs : /\ pc[p] = "delete_attempts"
                            /\ req[p].exam = attempts[a].exam

\* C34: when the countdown of the exam page reaches zero, the attempt is
\* started and neither submitted nor cancelled on the page, and the page
\* sends a submit with the auto flag; when that submit is answered 200, the
\* stored attempt has status auto_submitted
C34_TimeoutAutoSubmits ==
    [][ /\ ClientTimeout =>
               /\ client.attempt # Nil
               /\ ~client.submitted /\ ~client.cancelled
               /\ client'.sent = [op |-> "submit", autoSubmit |-> TRUE]
        /\ \A p \in Procs :
               ( /\ SubmitLog(p)
                 /\ client.waiting[p] = [op |-> "submit", autoSubmit |-> TRUE] )
               => attempts'[req[p].attemptId].status = "auto_submitted"
      ]_vars

\* C35: a tab switch cancels the exam on the page only when the count of tab
\* switches has reached the tab-switch limit of the exam; below the limit
\* the exam goes on
C35_CancelAtLimit ==
    [][ ClientViolation("tab_switch") =>
            IF client'.tabSwitches >= MaxViolations(client')
            THEN client'.cancelled
            ELSE ~client'.cancelled /\ client'.listening
      ]_vars

\* C36: the status of every stored attempt is in_progress, submitted or
\* auto_submitted, also after the page has cancelled the exam
C36_StoredStatuses ==
    \A a \in 1..Len(attempts) :
        attempts[a].status \in {"in_progress", "submitted", "auto_submitted"}

\* the page has cancelled the exam, the server has stored the violation and
\* the attempt is in_progress
C36_Witness ==
    /\ client.cancelled
    /\ client.attempt \in 1..Len(attempts)
    /\ attempts[client.attempt].status = "in_progress"
    /\ attempts[client.attempt].violations # <<>>
    /\ Quiet

\* C37: an attempt the page has cancelled for a tab switch (it reports the
\* tab switch after it has cancelled) is not handed back by a later start as
\* an attempt to resume, and no submit of it succeeds
C37_ClosedAfterCancel ==
    \A a \in 1..Len(attempts) :
        ( /\ TabSwitchEntries(attempts[a]) # {}
          /\ response.attemptId = a )
        => /\ ~(response.op = "start" /\ response.code = 200)
           /\ ~(response.op = "submit" /\ response.code = 200)

\* C39: the violation-alert events published for an attempt are as many as
\* the entries of its ledger: one alert for each entry, none without
C39_AlertsMatchLedger ==
    \A a \in 1..Len(attempts) :
        ( \A p \in Procs : pc[p] \notin {"violation_flag", "violation_save"} )
        => Cardinality(EventsOf(a, "violation-alert"))
               = Len(attempts[a].violations)

====
